---- MODULE Spec2Model ----
(***************************************************************************)
(* a10.py: a pattern-action query system over Wikipedia infoboxes.         *)
(*                                                                         *)
(* The module models                                                       *)
(*   - the module-level construction of pa_list (lines 284-293),           *)
(*   - search_pa_list (lines 296-314) with the action functions            *)
(*     (lines 203-274) and the lookups they call (lines 11-191),           *)
(*   - query_loop (lines 317-333),                                         *)
(*   - match, imported at line 7 from a module that is not part of the     *)
(*     sources at hand and therefore written from its specification.       *)
(*                                                                         *)
(* Strings.  A token is a TLA+ string.  A string made of tokens separated  *)
(* by single blanks (a title handed to wikipedia.search) is the sequence   *)
(* of its tokens: tokens come out of str.split() and hold no blank, so     *)
(* " ".join is one-to-one on them; the string is [words |-> tokens] and   *)
(* "" has no words.  A printed answer is [label, page, text]: the label    *)
(* the action puts first, then the value found, text, on the page found    *)
(* for the title page.                                                     *)
(***************************************************************************)
EXTENDS Integers, Sequences, FiniteSets, TLC

VARIABLES
    entry,      \* "main": the script is run; "call": query_loop is entered with a table
    pc,         \* position in the script / in query_loop
    pa_list,    \* the module global pa_list; <<>> while it is not bound
    bound,      \* TRUE once the name pa_list is bound
    world,      \* how the Wikipedia collaborators answer in this run
    query,      \* the token list of the query being processed
    res,        \* the result of the last call of search_pa_list
    exc,        \* the exception in flight or that ended the process, "" if none
    printed,    \* the answer lines printed for the current query
    farewells,  \* how many times the farewell line was printed
    first,      \* the first query dispatched in this run and its result
    pat,        \* (matcher runs) the pattern handed to match
    src,        \* (matcher runs) the token list handed to match
    mat         \* (matcher runs) what match returned

vars == <<entry, pc, pa_list, bound, world, query, res, exc, printed, farewells,
          first, pat, src, mat>>

----------------------------------------------------------------------------
(* Bounds *)

\* longest capture (tokens bound to the wildcard) among the enumerated queries
MaxCapture == 2
\* longest pattern of the matcher runs
MaxPat == 3
\* longest token list of the matcher runs
MaxSrc == 4

----------------------------------------------------------------------------
(* Sequences *)

Wild == "%"

SeqsUpTo(S, n) == UNION {[1..k -> S] : k \in 0..n}

Drop(s, n) == SubSeq(s, n + 1, Len(s))

Take(s, n) == SubSeq(s, 1, n)

----------------------------------------------------------------------------
(* match(pattern, source): the imported matcher.  Returns ok = FALSE for   *)
(* None, otherwise the capture.  A literal must equal the token at its     *)
(* place; the wildcard takes what is left once the literals after it are   *)
(* laid against the end of the source.                                     *)

NoMatch == [ok |-> FALSE, cap |-> <<>>]

\* mutant: the wildcard takes at least one token
RECURSIVE match_nonempty(_, _)
match_nonempty(pattern, source) ==
    IF pattern = <<>>
    THEN IF source = <<>> THEN [ok |-> TRUE, cap |-> <<>>] ELSE NoMatch
    ELSE IF Head(pattern) = Wild
    THEN LET rest == Tail(pattern)
             n    == Len(source) - Len(rest)
         IN  IF n >= 1 /\ Drop(source, n) = rest
             THEN [ok |-> TRUE, cap |-> Take(source, n)]
             ELSE NoMatch
    ELSE IF source # <<>> /\ Head(source) = Head(pattern)
    THEN match_nonempty(Tail(pattern), Tail(source))
    ELSE NoMatch

RECURSIVE match(_, _)
match(pattern, source) ==
    IF pattern = <<>>
    THEN IF source = <<>> THEN [ok |-> TRUE, cap |-> <<>>] ELSE NoMatch
    ELSE IF Head(pattern) = Wild
    THEN LET rest == Tail(pattern)
             n    == Len(source) - Len(rest)
         IN  IF n >= 0 /\ Drop(source, n) = rest
             THEN [ok |-> TRUE, cap |-> Take(source, n)]
             ELSE NoMatch
    ELSE IF source # <<>> /\ Head(source) = Head(pattern)
    THEN match(Tail(pattern), Tail(source))
    ELSE NoMatch

----------------------------------------------------------------------------
(* The Wikipedia collaborators.  world fixes, for one run, how they        *)
(* answer: it is read, never written, by the functions below.              *)
(*   "found"      a page with an infobox holding every field               *)
(*   "blank"      as "found", the groups that may match nothing are empty  *)
(*   "noresults"  wikipedia.search returns the empty list                  *)
(*   "noinfobox"  the page has no element of class infobox                 *)
(*   "nofield"    the infobox holds none of the fields the patterns seek   *)

Worlds == {"found", "blank", "noresults", "noinfobox", "nofield"}

\* the value returned by a call, or the exception it raised and where
Ok(v, titles) == [raised |-> FALSE, exc |-> "", at |-> "", val |-> v, looked |-> titles]

Raise(e, where, titles) ==
    [raised |-> TRUE, exc |-> e, at |-> where, val |-> "", looked |-> titles]

\* results[0] of an empty result list raises IndexError
get_page_html(title) ==
    IF world = "noresults"
    THEN Raise("IndexError", "get_page_html", <<title>>)
    ELSE Ok([page |-> title,
             infobox |-> world # "noinfobox",
             fields |-> CASE world = "nofield" -> "absent"
                          [] world = "blank"   -> "blank"
                          [] OTHER             -> "full"],
            <<title>>)

get_first_infobox_text(html) ==
    IF ~html.val.infobox
    THEN Raise("LookupError", "get_first_infobox_text", html.looked)
    ELSE html

\* infobox text of the page found for title; clean_text keeps what a text holds
infobox_text(title) ==
    LET html == get_page_html(title)
    IN  IF html.raised THEN html ELSE get_first_infobox_text(html)

\* p.search(text): the named group, "" when the group may match nothing
get_match(text, may_be_empty) ==
    IF text.val.fields = "absent"
    THEN Raise("AttributeError", "get_match", text.looked)
    ELSE Ok([page |-> text.val.page,
             text |-> IF text.val.fields = "blank" /\ may_be_empty THEN "" ELSE "v"],
            text.looked)

\* a getter that searches the infobox text with a pattern
get_field(title, may_be_empty) ==
    LET text == infobox_text(title)
    IN  IF text.raised THEN text ELSE get_match(text, may_be_empty)

\* (Result\s*(?P<result>[\w\s]*)Territorial): the group may be empty
get_war_result(war_name) == get_field(war_name, TRUE)

\* \d{4}(?P<order>\d*\w{2})
get_president(name) == get_field(name, FALSE)

\* no pattern: the whole cleaned infobox text, which may be empty
get_everything(thing) ==
    LET text == infobox_text(thing)
    IN  IF text.raised
        THEN text
        ELSE Ok([page |-> text.val.page,
                 text |-> IF text.val.fields = "blank" THEN "" ELSE "v"],
                text.looked)

\* (?P<birthday>\d{4}-\d{2}-\d{2})
get_president_birthday(entity_name) == get_field(entity_name, FALSE)

\* ((City\sstatus)|(Settled(c. )?))(?P<found>(\w+ \d+, )?\d{4})
get_founding(entity_name) == get_field(entity_name, FALSE)

\* Location\s?(?P<happen>\w+)
get_happen(entity_name) == get_field(entity_name, FALSE)

\* Spouse[\n\s](?P<first_lady>\w* \w*), stripped: may be empty
get_first_lady(entity_name) == get_field(entity_name, TRUE)

----------------------------------------------------------------------------
(* The actions.  Each returns the list of its one answer, or raises.       *)

Answer(label, v) == [label |-> label, page |-> v.page, text |-> v.text]

\* [getter(...)] with the label the getter puts before the value
ListOf(label, r) ==
    IF r.raised
    THEN [raised |-> TRUE, exc |-> r.exc, at |-> r.at, answers |-> <<>>,
          looked |-> r.looked]
    ELSE [raised |-> FALSE, exc |-> "", at |-> "", answers |-> <<Answer(label, r.val)>>,
          looked |-> r.looked]

RaiseIn(e, where) ==
    [raised |-> TRUE, exc |-> e, at |-> where, answers |-> <<>>, looked |-> <<>>]

\* " ".join(matches)
Join(matches) == [words |-> matches]

\* matches[0]: one token, as a string
First(matches) == [words |-> <<matches[1]>>]

president(matches) == ListOf("", get_president(Join(matches)))

war_result(matches) ==
    IF matches = <<>>
    THEN RaiseIn("IndexError", "war_result")
    ELSE ListOf("", get_war_result(First(matches)))

everything(matches) ==
    IF matches = <<>>
    THEN RaiseIn("IndexError", "everything")
    ELSE ListOf("", get_everything(First(matches)))

president_name(matches) ==
    ListOf("President's birthday ", get_president_birthday(Join(matches)))

founding(matches) == ListOf("Founded: ", get_founding(Join(matches)))

happen(matches) == ListOf("Location: ", get_happen(Join(matches)))

first_lady(matches) == ListOf("First Lady: ", get_first_lady(Join(matches)))

\* mutant: the exit action returns instead of raising
bye_action_returns(dummy) ==
    [raised |-> FALSE, exc |-> "", at |-> "", answers |-> <<>>, looked |-> <<>>]

bye_action(dummy) == RaiseIn("KeyboardInterrupt", "bye_action")

\* an action of the declared type Action that finds nothing: a table entry
\* search_pa_list is exercised with, no function of a10.py
finds_nothing(matches) ==
    [raised |-> FALSE, exc |-> "", at |-> "", answers |-> <<>>, looked |-> <<>>]

\* act(mat) for the action named act
Call(act, matches) ==
    CASE act = "president"      -> president(matches)
      [] act = "war_result"     -> war_result(matches)
      [] act = "president_name" -> president_name(matches)
      [] act = "founding"       -> founding(matches)
      [] act = "everything"     -> everything(matches)
      [] act = "happen"         -> happen(matches)
      [] act = "first_lady"     -> first_lady(matches)
      [] act = "bye_action"     -> bye_action(matches)
      [] act = "finds_nothing"  -> finds_nothing(matches)

----------------------------------------------------------------------------
(* pa_list, lines 284-293.  The list display holds seven elements: six     *)
(* tuples and, at lines 291-292, the tuple (pattern, first_lady) followed  *)
(* without a separator by a parenthesised argument list, which is a call   *)
(* of that tuple with the arguments (["bye"], bye_action).                 *)

Tuple(p, a) == [kind |-> "tuple", pat |-> p, act |-> a, args |-> <<>>]

CallOf(p, a, arguments) == [kind |-> "call", pat |-> p, act |-> a, args |-> arguments]

pa_list_display ==
    << Tuple(<<"which", "number", "president", "was", Wild>>, "president"),
       Tuple(<<"what", "was", "the", "result", "of", "the", Wild>>, "war_result"),
       Tuple(<<"when", "was", "the", "birthday", "of", Wild>>, "president_name"),
       Tuple(<<"when", "was", "the", "founding", "of", Wild>>, "founding"),
       Tuple(<<"tell", "me", "everything", "about", Wild>>, "everything"),
       Tuple(<<"what", "was", "the", "location", "of", Wild>>, "happen"),
       CallOf(<<"who", "was", "the", "first", "lady", "of", Wild>>, "first_lady",
              <<Tuple(<<"bye">>, "bye_action")>>) >>

\* evaluating the display, element by element: calling a tuple raises TypeError
RECURSIVE EvalDisplay(_, _)
EvalDisplay(display, done) ==
    IF display = <<>>
    THEN [raised |-> FALSE, exc |-> "", table |-> done]
    ELSE IF Head(display).kind = "call"
    THEN [raised |-> TRUE, exc |-> "TypeError", table |-> <<>>]
    ELSE EvalDisplay(Tail(display),
                     Append(done, [pat |-> Head(display).pat, act |-> Head(display).act]))

\* the (pattern, action) pairs written at lines 285-292, in order
RECURSIVE Pairs(_)
Pairs(display) ==
    IF display = <<>>
    THEN <<>>
    ELSE <<[pat |-> Head(display).pat, act |-> Head(display).act]>>
         \o Pairs(Head(display).args) \o Pairs(Tail(display))

pa_list_pairs == Pairs(pa_list_display)

\* a table in which two entries match the same queries (the pattern of pair 5
\* also stands at entry 1) and one action (entry 3) returns no answer
Shadowing ==
    [pa_list_pairs EXCEPT ![1].pat = pa_list_pairs[5].pat, ![3].act = "finds_nothing"]

\* the tables query_loop is entered with
Tables == {pa_list_pairs, Shadowing}

----------------------------------------------------------------------------
(* search_pa_list, lines 296-314 *)

IDontUnderstand == [label |-> "I don't understand", page |-> [words |-> <<>>], text |-> ""]

NoAnswers == [label |-> "No answers", page |-> [words |-> <<>>], text |-> ""]

\* what a call of search_pa_list did: the answers returned or the exception
\* raised, the entries whose action was called, the number of patterns tried,
\* the capture handed to the action, the titles looked up
\* mutant: the answer list is returned as it is, empty or not
ReturnedAsIs(h, i, capture) ==
    [raised |-> h.raised, exc |-> h.exc, at |-> h.at,
     answers |-> IF h.raised THEN <<>> ELSE h.answers,
     called |-> <<i>>, tried |-> i, handed |-> capture, looked |-> h.looked]

Returned(h, i, capture) ==
    [raised |-> h.raised, exc |-> h.exc, at |-> h.at,
     answers |-> IF h.raised THEN <<>>
                 ELSE IF h.answers # <<>> THEN h.answers ELSE <<NoAnswers>>,
     called |-> <<i>>, tried |-> i, handed |-> capture, looked |-> h.looked]

\* mutant: the wrong sentinel when nothing matches
NotUnderstoodNoAnswers(n) ==
    [raised |-> FALSE, exc |-> "", at |-> "", answers |-> <<NoAnswers>>,
     called |-> <<>>, tried |-> n, handed |-> <<>>, looked |-> <<>>]

NotUnderstood(n) ==
    [raised |-> FALSE, exc |-> "", at |-> "", answers |-> <<IDontUnderstand>>,
     called |-> <<>>, tried |-> n, handed |-> <<>>, looked |-> <<>>]

\* mutant: the action is handed the query, not the capture
RECURSIVE search_from_whole(_, _)
search_from_whole(i, source) ==
    IF i > Len(pa_list)
    THEN NotUnderstood(Len(pa_list))
    ELSE LET m == match(pa_list[i].pat, source)
         IN  IF m.ok
             THEN Returned(Call(pa_list[i].act, source), i, source)
             ELSE search_from_whole(i + 1, source)

\* the loop of lines 308-312 from entry i on
RECURSIVE search_from(_, _)
search_from(i, source) ==
    IF i > Len(pa_list)
    THEN NotUnderstood(Len(pa_list))
    ELSE LET m == match(pa_list[i].pat, source)
         IN  IF m.ok
             THEN Returned(Call(pa_list[i].act, m.cap), i, m.cap)
             ELSE search_from(i + 1, source)

\* mutant: the table is walked from its last entry to its first
RECURSIVE search_back(_, _)
search_back(i, source) ==
    IF i < 1
    THEN NotUnderstood(Len(pa_list))
    ELSE LET m == match(pa_list[i].pat, source)
         IN  IF m.ok
             THEN Returned(Call(pa_list[i].act, m.cap), i, m.cap)
             ELSE search_back(i - 1, source)

search_pa_list_last(source) == search_back(Len(pa_list), source)

\* mutant: after the first call of a run the answers are used up
search_pa_list_once(source) ==
    LET r == search_from(1, source)
    IN  IF first.set /\ ~r.raised THEN [r EXCEPT !.answers = <<NoAnswers>>] ELSE r

search_pa_list(source) == search_from(1, source)

----------------------------------------------------------------------------
(* The line read by input(), and .replace("?", "").lower().split()         *)
(* A line is a sequence of words separated by blanks; a word is its        *)
(* lower-case letters, whether it is written in upper case, and whether a  *)
(* question mark follows it (a word with no letters is a lone "?").        *)

Word(t, u, q) == [text |-> t, upper |-> u, qmark |-> q]

Styles == {"plain", "asked"}

\* "asked": in upper case, a "?" after the last word and a lone "?" behind it
Styled(tokens, style) ==
    LET n == Len(tokens)
    IN  IF style = "plain"
        THEN [k \in 1..n |-> Word(tokens[k], FALSE, FALSE)]
        ELSE [k \in 1..n |-> Word(tokens[k], TRUE, k = n)] \o <<Word("", FALSE, TRUE)>>

replace_qmark(line) == [k \in 1..Len(line) |-> [line[k] EXCEPT !.qmark = FALSE]]

lower(line) == [k \in 1..Len(line) |-> [line[k] EXCEPT !.upper = FALSE]]

RECURSIVE split(_)
split(line) ==
    IF line = <<>>
    THEN <<>>
    ELSE IF Head(line).text = "" /\ ~Head(line).qmark
    THEN split(Tail(line))
    ELSE <<Head(line)>> \o split(Tail(line))

\* the token of a word that is all lower-case letters
AsToken(w) == IF w.upper \/ w.qmark THEN "?" ELSE w.text

Normalize(line) ==
    LET words == split(lower(replace_qmark(line)))
    IN  [k \in 1..Len(words) |-> AsToken(words[k])]

----------------------------------------------------------------------------
(* The queries typed in a run *)

Literals(pattern) == SelectSeq(pattern, LAMBDA t : t # Wild)

\* the captures typed: "", "new", "new york", "new york new", ...
Capture(n) == [k \in 1..n |-> IF k % 2 = 1 THEN "new" ELSE "york"]

Captures == {Capture(n) : n \in 0..MaxCapture}

\* the literal tokens of each pattern followed by a capture; the same with the
\* last literal left out; the captures alone
Queries ==
    {Literals(pa_list_pairs[i].pat) \o c : i \in 1..Len(pa_list_pairs), c \in Captures}
    \cup {Take(Literals(pa_list_pairs[i].pat), Len(Literals(pa_list_pairs[i].pat)) - 1) :
            i \in 1..Len(pa_list_pairs)}
    \cup Captures

----------------------------------------------------------------------------
(* State *)

NoCall ==
    [raised |-> FALSE, exc |-> "", at |-> "", answers |-> <<>>,
     called |-> <<>>, tried |-> 0, handed |-> <<>>, looked |-> <<>>]

\* history: the table, the query and the result of the first call of
\* search_pa_list in this run; whether another query was dispatched after it
\* (others) and whether the same query was then dispatched again (again)
NoFirst ==
    [set |-> FALSE, table |-> <<>>, query |-> <<>>, res |-> NoCall,
     others |-> FALSE, again |-> FALSE]

Recorded(r) ==
    IF ~first.set
    THEN [set |-> TRUE, table |-> pa_list, query |-> query, res |-> r,
          others |-> FALSE, again |-> FALSE]
    ELSE IF query = first.query
    THEN [first EXCEPT !.again = TRUE]
    ELSE IF ~first.again
    THEN [first EXCEPT !.others = TRUE]
    ELSE first

\* the exceptions the except clause of line 330 names
Caught == {"KeyboardInterrupt", "EOFError"}

Idle ==
    /\ query = <<>>
    /\ res = NoCall
    /\ exc = ""
    /\ printed = <<>>
    /\ farewells = 0
    /\ first = NoFirst
    /\ pat = <<>>
    /\ src = <<>>
    /\ mat = NoMatch

\* the script is run from its first line
InitMain ==
    /\ entry = "main"
    /\ pc = "load"
    /\ pa_list = <<>>
    /\ bound = FALSE
    /\ world \in Worlds
    /\ Idle

\* query_loop is entered with pa_list bound to a table: search_pa_list and
\* query_loop (lines 296-333) over the global they read.  Run as a script,
\* the statement that binds pa_list raises (LoadModule) and neither is reached.
InitCall ==
    /\ entry = "call"
    /\ pc = "start"
    /\ pa_list \in Tables
    /\ bound = TRUE
    /\ world \in Worlds
    /\ Idle

Init == InitMain \/ InitCall

----------------------------------------------------------------------------
(* The script, lines 1-339 *)

\* the statement of lines 284-293, then (line 339) the call of query_loop
LoadModule ==
    /\ pc = "load"
    /\ LET r == EvalDisplay(pa_list_display, <<>>)
       IN  IF r.raised
           THEN /\ pc' = "uncaught"
                /\ exc' = r.exc
                /\ UNCHANGED <<pa_list, bound>>
           ELSE /\ pc' = "start"
                /\ pa_list' = r.table
                /\ bound' = TRUE
                /\ UNCHANGED exc
    /\ UNCHANGED <<entry, world, query, res, printed, farewells, first, pat, src, mat>>

----------------------------------------------------------------------------
(* query_loop, lines 317-333 *)

\* line 320
Welcome ==
    /\ pc = "start"
    /\ pc' = "awaiting"
    /\ UNCHANGED <<entry, pa_list, bound, world, query, res, exc, printed, farewells,
                   first, pat, src, mat>>

\* line 325: a line is read and normalized
ReadInput ==
    /\ pc = "awaiting"
    /\ \E q \in Queries, style \in Styles :
          query' = Normalize(Styled(q, style))
    /\ res' = NoCall
    /\ printed' = <<>>
    /\ pc' = "dispatching"
    /\ UNCHANGED <<entry, pa_list, bound, world, exc, farewells, first, pat, src, mat>>

\* line 325: input() raises EOFError at the end of the input
EndOfInput ==
    /\ pc = "awaiting"
    /\ exc' = "EOFError"
    /\ pc' = "raised"
    /\ UNCHANGED <<entry, pa_list, bound, world, query, res, printed, farewells,
                   first, pat, src, mat>>

\* lines 324-328: the user interrupts the loop body (Ctrl-C)
UserInterrupt ==
    /\ pc \in {"awaiting", "dispatching", "returned"}
    /\ exc' = "KeyboardInterrupt"
    /\ pc' = "raised"
    /\ UNCHANGED <<entry, pa_list, bound, world, query, res, printed, farewells,
                   first, pat, src, mat>>

\* line 326
Dispatch ==
    /\ pc = "dispatching"
    /\ LET r == search_pa_list(query)
       IN  /\ res' = r
           /\ exc' = r.exc
           /\ pc' = IF r.raised THEN "raised" ELSE "returned"
           /\ first' = Recorded(r)
    /\ UNCHANGED <<entry, pa_list, bound, world, query, printed, farewells, pat, src, mat>>

\* lines 327-328
PrintAnswers ==
    /\ pc = "returned"
    /\ printed' = res.answers
    /\ pc' = "awaiting"
    /\ UNCHANGED <<entry, pa_list, bound, world, query, res, exc, farewells,
                   first, pat, src, mat>>

\* lines 330-331: the exception is one of those named, the loop is left
Except ==
    /\ pc = "raised"
    /\ exc \in Caught
    /\ pc' = "leaving"
    /\ UNCHANGED <<entry, pa_list, bound, world, query, res, exc, printed, farewells,
                   first, pat, src, mat>>

\* line 330: any other exception leaves query_loop and ends the process
Propagate ==
    /\ pc = "raised"
    /\ exc \notin Caught
    /\ pc' = "uncaught"
    /\ UNCHANGED <<entry, pa_list, bound, world, query, res, exc, printed, farewells,
                   first, pat, src, mat>>

\* line 333
Farewell ==
    /\ pc = "leaving"
    /\ farewells' = farewells + 1
    /\ pc' = "terminated"
    /\ UNCHANGED <<entry, pa_list, bound, world, query, res, exc, printed,
                   first, pat, src, mat>>

Next ==
    \/ LoadModule
    \/ Welcome
    \/ ReadInput
    \/ EndOfInput
    \/ UserInterrupt
    \/ Dispatch
    \/ PrintAnswers
    \/ Except
    \/ Propagate
    \/ Farewell

Spec == Init /\ [][Next]_vars

----------------------------------------------------------------------------
(* Runs of the matcher: search_pa_list over a table of one entry whose      *)
(* pattern is any pattern of at most one wildcard.                          *)

Letters == {"a", "b"}

Patterns ==
    {p \in SeqsUpTo(Letters \cup {Wild}, MaxPat) :
        Cardinality({k \in 1..Len(p) : p[k] = Wild}) <= 1}

Sources == SeqsUpTo(Letters, MaxSrc)

InitMatch ==
    /\ entry = "match"
    /\ pc = "match"
    /\ pat \in Patterns
    /\ src \in Sources
    /\ pa_list = <<[pat |-> pat, act |-> "president"]>>
    /\ bound = TRUE
    /\ world = "found"
    /\ query = <<>>
    /\ res = NoCall
    /\ exc = ""
    /\ printed = <<>>
    /\ farewells = 0
    /\ first = NoFirst
    /\ mat = NoMatch

\* lines 308-312 for the one entry: mat is the value of line 309
MatchCall ==
    /\ pc = "match"
    /\ mat' = match(pat, src)
    /\ res' = search_pa_list(src)
    /\ pc' = "matched"
    /\ UNCHANGED <<entry, pa_list, bound, world, query, exc, printed, farewells,
                   first, pat, src>>

NextMatch == MatchCall

SpecMatch == InitMatch /\ [][NextMatch]_vars

----------------------------------------------------------------------------
(* Properties *)

\* res holds the result of search_pa_list(query) in a run of query_loop
Dispatched == entry = "call" /\ res.tried > 0

\* the entries of pa_list whose pattern matches source
Matching(source) == {i \in 1..Len(pa_list) : match(pa_list[i].pat, source).ok}

Lowest(S) == CHOOSE i \in S : \A j \in S : i <= j

\* the places where a Wikipedia lookup fails: no document, no infobox, no field
LookupPlaces == {"get_page_html", "get_first_infobox_text", "get_match"}

\* C1: when some entry matches the query, search_pa_list calls the action of
\* the matching entry of lowest index, and only that one, and tries no
\* pattern after it.
C1_FirstMatchWins ==
    Dispatched /\ Matching(query) # {} =>
        /\ res.called = <<Lowest(Matching(query))>>
        /\ res.tried = Lowest(Matching(query))

\* two entries match the query; the action of the first was called
C1_Witness ==
    /\ Dispatched
    /\ Cardinality(Matching(query)) >= 2
    /\ res.called = <<1>>
    /\ res.tried = 1

\* C2 (as claimed): a handler's lookup failure never ends the process: it is
\* caught in query_loop.
C2_LookupFailureCaught ==
    (/\ Dispatched
     /\ pa_list = pa_list_pairs
     /\ res.raised
     /\ res.at \in LookupPlaces)
    => pc # "uncaught"

\* C3: when no entry matches the query, no action is called and the result
\* is the list of the one answer "I don't understand".
C3_NotUnderstood ==
    Dispatched /\ Matching(query) = {} =>
        /\ res.called = <<>>
        /\ ~res.raised
        /\ res.answers = <<IDontUnderstand>>

\* a query no entry matches was answered and the answer printed
C3_Witness ==
    /\ Dispatched
    /\ Matching(query) = {}
    /\ query # <<>>
    /\ pc = "awaiting"
    /\ printed = <<IDontUnderstand>>

\* C4: when the action of the matching entry returns the empty list the
\* result is the list of the one answer "No answers", which is not the answer
\* given when nothing matches; a list that is not empty is returned as it
\* is; no list returned is empty.
C4_NoAnswersFallback ==
    /\ NoAnswers # IDontUnderstand
    /\ Dispatched /\ ~res.raised => res.answers # <<>>
    /\ Dispatched /\ ~res.raised /\ res.called # <<>> =>
          LET h == Call(pa_list[res.called[1]].act, res.handed)
          IN  /\ h.answers = <<>> => res.answers = <<NoAnswers>>
              /\ h.answers # <<>> => res.answers = h.answers

\* an entry matched, its action returned the empty list
C4_Witness ==
    /\ Dispatched
    /\ ~res.raised
    /\ res.called # <<>>
    /\ Call(pa_list[res.called[1]].act, res.handed).answers = <<>>
    /\ printed = <<NoAnswers>>

\* what a step of query_loop does once the query is ["bye"]
ByeStep ==
    /\ pc = "dispatching" /\ query = <<"bye">> =>
          pc' = "raised" /\ exc' = "KeyboardInterrupt" /\ printed' = <<>>
    /\ pc = "raised" /\ exc = "KeyboardInterrupt" =>
          pc' = "leaving" /\ printed' = printed
    /\ pc = "leaving" => pc' = "terminated" /\ printed' = printed
    /\ pc # "terminated"
    /\ farewells' = IF pc' = "terminated" THEN 1 ELSE 0

\* C5: once the query read is ["bye"], the dispatch raises the exit signal,
\* no answer line is printed, the loop is left, the farewell line is printed
\* once, and nothing happens after it: no input is read.
C5_ByeTerminates == [][entry = "call" => ByeStep]_vars

\* the session ended on the query bye
C5_Witness ==
    /\ entry = "call"
    /\ pc = "terminated"
    /\ query = <<"bye">>
    /\ res.raised /\ res.at = "bye_action"
    /\ printed = <<>>
    /\ farewells = 1

\* C6 (as claimed): query_loop ends only on an exit signal or at the end of
\* the input.
C6_OnlyExitOrEndOfInput ==
    (/\ entry = "call"
     /\ pa_list = pa_list_pairs
     /\ pc \in {"uncaught", "terminated"})
    => exc \in Caught

\* the position of the wildcard of a pattern that has exactly one
WildAt(pattern) == CHOOSE k \in 1..Len(pattern) : pattern[k] = Wild

OneWild(pattern) == Cardinality({k \in 1..Len(pattern) : pattern[k] = Wild}) = 1

\* the literals before the wildcard are the start of the source, those after
\* it are its end
Aligned(pattern, source) ==
    LET i == WildAt(pattern)
        after == Len(pattern) - i
    IN  /\ Take(source, i - 1) = Take(pattern, i - 1)
        /\ Drop(source, Len(source) - after) = Drop(pattern, i)

\* the tokens of the source between the two
Between(pattern, source) ==
    LET i == WildAt(pattern)
    IN  SubSeq(source, i, Len(source) - (Len(pattern) - i))

C9_TableBuilt ==
    entry = "main" /\ pc # "load" =>
        /\ bound
        /\ Len(pa_list) = Len(pa_list_pairs)
        /\ pa_list[Len(pa_list)] = [pat |-> <<"bye">>, act |-> "bye_action"]
        /\ pc # "uncaught"

\* C10 (as claimed): an action of the table, called with any capture, returns
\* answers or fails in a lookup, and the title it looks up is the whole capture.
C10_HandlersTotal ==
    (/\ Dispatched
     /\ pa_list = pa_list_pairs
     /\ res.called # <<>>
     /\ pa_list[res.called[1]].act # "bye_action")
    => /\ res.raised => res.at \in LookupPlaces
       /\ res.looked = <<Join(res.handed)>>

====
